---- MODULE Spec2Model ----
(***************************************************************************)
(* Model of SupabaseLogger (backend/onyx/onyxbot/slack/handlers/supabase/  *)
(* supabase.py): a log shipper that owns a bearer credential               *)
(* (access_token, refresh_token, expires_at), authenticates lazily,        *)
(* refreshes an expired token, falls back to full authentication, and      *)
(* retries a failed insert once after dropping the access token.           *)
(*                                                                         *)
(* Every HTTP exchange is two steps, the request (sent by the action that  *)
(* reaches requests.post) and the response (an input drawn from the set of *)
(* outcomes the server and the transport can produce).  The callers of the *)
(* shipper are the elements of Threads; under Spec a call starts only when *)
(* no other call is in progress (sequential use).                          *)
(***************************************************************************)
EXTENDS Integers, Sequences, FiniteSets, TLC

VARIABLES
    access_token,   \* self.access_token: a token, or None
    refresh_token,  \* self.refresh_token: a token, or None
    expires_at,     \* self.expires_at: a unix time, or NoTime (None)
    now,            \* the wall clock, datetime.now(timezone.utc).timestamp()
    authed,         \* history: an authenticate/refresh succeeded since __init__ or the last invalidation
    pc,             \* per caller: position in the code
    op,             \* per caller: the method called from outside
    attempt,        \* per caller: 1 in the first _insert_log of log_success, 2 in the retry
    current_time,   \* per caller: local current_time of _get_valid_token
    log_entry,      \* per caller: local log_entry of log_success
    request,        \* per caller: the HTTP request in flight
    response,       \* per caller: the last token response received (local response/data)
    seen,           \* per caller, history: the Credential that _get_valid_token found on entry
    raised,         \* per caller: the exception that left the called method, or NoExc
    result,         \* per caller: the value the called method returned
    events,         \* per caller, history: what the call did so far, in order
    start,          \* per caller, history: the Credential when the call started
    config,         \* self.url, self.api_key, self.auth_email, self.auth_password
    concurrent,     \* whether the host lets calls on the shipper overlap
    is_langfuse_configured, \* module constant of langfuse_utils / langfuse_monitoring
    wrapper,        \* the call in progress of a function wrapped by safe_trace
    helper,         \* the call in progress of a log_* helper of langfuse_utils
    embed           \* the call in progress of embed_with_langfuse

vars == <<access_token, refresh_token, expires_at, now, authed, pc, op, attempt,
          current_time, log_entry, request, response, seen, raised, result,
          events, start, config, concurrent, is_langfuse_configured, wrapper,
          helper, embed>>

shipper == <<access_token, refresh_token, expires_at>>

locals == <<pc, op, attempt, current_time, log_entry, request, response, seen,
            raised, result, events, start>>

\* what the credential logic never writes
tracing == <<is_langfuse_configured, wrapper, helper, embed>>

others == <<config, concurrent, tracing>>

----------------------------------------------------------------------------
(* Values *)

Threads == {1, 2}

None == "None"
NoTime == -1
NoExc == "none"

Tokens == {"a1", "a2"}
RefreshTokens == {"r1", "r2"}
Entries == {"e1", "e2"}

\* a key that the JSON body of a token response does not have
Missing == "Missing"
MissingNum == -2
\* an expires_in that is not a number (a string, null)
NotANumber == -3

DefaultExpiresIn == 3600
ExpiresInValues == {1}

StartTime == 1
MaxNow == 3

\* Python truthiness of the values the fields take: None, "" and 0 are false
Truthy(x) == x # None /\ x # ""
TruthyTime(x) == x # NoTime /\ x # 0

Credential(at, rt, ea) == [access_token |-> at, refresh_token |-> rt, expires_at |-> ea]

CurrentCredential == Credential(access_token, refresh_token, expires_at)

NoCredential == Credential(None, None, NoTime)

\* __init__, lines 23-26: read once from the environment
Config == [url |-> "SUPABASE_URL", api_key |-> "SUPABASE_KEY",
           auth_email |-> "SUPABASE_AUTH_EMAIL", auth_password |-> "SUPABASE_AUTH_PASSWORD"]

----------------------------------------------------------------------------
(* HTTP messages *)

NoRequest == [k |-> "none", carried |-> None, payload |-> None]

AuthRequest == [k |-> "authenticate", carried |-> "password", payload |-> None]

RefreshRequest(rt) == [k |-> "refresh", carried |-> rt, payload |-> None]

InsertRequest(tok, entry) == [k |-> "insert", carried |-> tok, payload |-> entry]

NoResponse ==
    [status |-> "none", json |-> FALSE, access_token |-> Missing,
     refresh_token |-> Missing, expires_in |-> MissingNum]

FailedResponse(s) ==
    [status |-> s, json |-> FALSE, access_token |-> Missing,
     refresh_token |-> Missing, expires_in |-> MissingNum]

\* the outcomes of POST /auth/v1/token: no response at all, a non-2xx status,
\* a 2xx body that is not JSON, a 2xx JSON object with any of the three keys
\* present or absent.  A body may carry "refresh_token": null, the one way
\* to the state lines 68-71 of _get_valid_token are written for (a token
\* with an expiry and no refresh token).
TokenResponses ==
    {FailedResponse("transport_error"), FailedResponse("non2xx"), FailedResponse("ok")}
    \cup [status : {"ok"}, json : {TRUE},
          access_token : Tokens \cup {Missing},
          refresh_token : RefreshTokens \cup {Missing, None},
          expires_in : ExpiresInValues \cup {MissingNum, NotANumber}]

\* the outcomes of POST /rest/v1/bot_logs
InsertResponses == {"200", "401", "transport_error"}

Event(k, ok, detail) ==
    [k |-> k, ok |-> ok, detail |-> detail, carried |-> None, payload |-> None]

----------------------------------------------------------------------------
(* _authenticate / _refresh_token: the body of the try block and the       *)
(* except handler.  The three fields are assigned one after the other, so  *)
(* an exception raised by a later line leaves the earlier assignments.     *)
(* A transport error leaves `response` unbound and the handler's           *)
(* hasattr(response, 'text') raises UnboundLocalError in its place.        *)

TokenExchange(r, at, rt, ea, t) ==
    IF r.status = "transport_error"
    THEN [access_token |-> at, refresh_token |-> rt, expires_at |-> ea, exc |-> "UnboundLocalError"]
    ELSE IF r.status # "ok"
    THEN [access_token |-> at, refresh_token |-> rt, expires_at |-> ea, exc |-> "HTTPError"]
    ELSE IF ~r.json
    THEN [access_token |-> at, refresh_token |-> rt, expires_at |-> ea, exc |-> "JSONDecodeError"]
    ELSE IF r.access_token = Missing
    THEN [access_token |-> at, refresh_token |-> rt, expires_at |-> ea, exc |-> "KeyError"]
    ELSE IF r.refresh_token = Missing
    THEN [access_token |-> r.access_token, refresh_token |-> rt, expires_at |-> ea, exc |-> "KeyError"]
    ELSE IF r.expires_in = NotANumber
    THEN [access_token |-> r.access_token, refresh_token |-> r.refresh_token,
          expires_at |-> ea, exc |-> "TypeError"]
    ELSE [access_token |-> r.access_token, refresh_token |-> r.refresh_token,
          expires_at |-> t + (IF r.expires_in = MissingNum THEN DefaultExpiresIn ELSE r.expires_in),
          exc |-> NoExc]

\* faulty variant: a held refresh token is tried before the access token is looked at
GetValidTokenPathRefreshFirst(at, rt, ea, t) ==
    IF TruthyTime(ea) /\ t >= ea /\ Truthy(rt) THEN "refresh"
    ELSE IF ~Truthy(at) THEN "authenticate"
    ELSE IF TruthyTime(ea) /\ t >= ea THEN "authenticate"
    ELSE "return"

\* faulty variant: an expired token is always replaced by full authentication
GetValidTokenPathNoRefresh(at, rt, ea, t) ==
    IF ~Truthy(at) THEN "authenticate"
    ELSE IF TruthyTime(ea) /\ t >= ea THEN "authenticate"
    ELSE "return"

\* faulty variant: a held refresh token is used whether or not the token has expired
GetValidTokenPathEagerRefresh(at, rt, ea, t) ==
    IF ~Truthy(at) THEN "authenticate"
    ELSE IF TruthyTime(ea) /\ Truthy(rt) THEN "refresh"
    ELSE IF TruthyTime(ea) /\ t >= ea THEN "authenticate"
    ELSE "return"

\* faulty variant: the expiry test is a strict comparison
GetValidTokenPathStrict(at, rt, ea, t) ==
    IF ~Truthy(at) THEN "authenticate"
    ELSE IF TruthyTime(ea) /\ t > ea /\ Truthy(rt) THEN "refresh"
    ELSE IF TruthyTime(ea) /\ t > ea THEN "authenticate"
    ELSE "return"

\* faulty variant: an expired token without a refresh token is returned as it is
GetValidTokenPathNoReauth(at, rt, ea, t) ==
    IF ~Truthy(at) THEN "authenticate"
    ELSE IF TruthyTime(ea) /\ t >= ea /\ Truthy(rt) THEN "refresh"
    ELSE "return"

\* faulty variant: a missing access token is not looked for
GetValidTokenPathNoFirstAuth(at, rt, ea, t) ==
    IF TruthyTime(ea) /\ t >= ea /\ Truthy(rt) THEN "refresh"
    ELSE IF TruthyTime(ea) /\ t >= ea THEN "authenticate"
    ELSE "return"

\* _get_valid_token, lines 52-73: which exchange the stored Credential asks for
GetValidTokenPath(at, rt, ea, t) ==
    IF ~Truthy(at) THEN "authenticate"
    ELSE IF TruthyTime(ea) /\ t >= ea /\ Truthy(rt) THEN "refresh"
    ELSE IF TruthyTime(ea) /\ t >= ea THEN "authenticate"
    ELSE "return"

\* faulty variant: the outer handler gives up instead of retrying
AfterInsertLogFailureNoRetry(n) == "done"

\* faulty variant: the inner handler retries as the outer one does
AfterInsertLogFailureAlways(n) == "ls_except"

\* log_success, lines 186-197: where an exception leaving _insert_log goes.
\* The first one is caught by the outer handler, which invalidates and
\* retries; the second one is caught by the inner handler, which logs it.
AfterInsertLogFailure(n) == IF n = 1 THEN "ls_except" ELSE "done"

\* faulty variant: the inner handler re-raises after logging
InnerHandlerReraises(e) == e

\* log_success, lines 193-197: what the inner handler lets out
InnerHandler(e) == NoExc

\* faulty variant: _get_valid_token absorbs the failure of _authenticate
PropagateAbsorbed(o, n, e) ==
    IF o = "log_success"
    THEN [pc |-> AfterInsertLogFailure(n), raised |-> IF n = 1 THEN NoExc ELSE InnerHandler(e)]
    ELSE [pc |-> "done", raised |-> IF o = "get_valid_token" THEN NoExc ELSE e]

\* who sees an exception that leaves _authenticate or _insert_log's request
Propagate(o, n, e) ==
    IF o = "log_success"
    THEN [pc |-> AfterInsertLogFailure(n), raised |-> IF n = 1 THEN NoExc ELSE InnerHandler(e)]
    ELSE [pc |-> "done", raised |-> e]

----------------------------------------------------------------------------
(* Tracing values (langfuse_utils.py, langfuse_monitoring.py,              *)
(* utils/langfuse.py)                                                      *)

\* the two modules that define safe_trace
Implementations == {"langfuse_utils", "langfuse_monitoring"}

\* the trace_id keyword is absent from the call
NoKw == "NoKw"

\* how a call ended: not yet, with a value, or with an exception
NoOutcome == [kind |-> "none", v |-> None]
Returned(v) == [kind |-> "return", v |-> v]
Raised(x) == [kind |-> "raise", v |-> x]

\* what the wrapped function does: handle_standard_answers returns a bool
\* or raises
FuncOutcomes == {Returned("False"), Returned("True"), Raised("ValueError")}

\* the exception of a tracing-backend call that fails
LangfuseError == Raised("LangfuseError")

\* the arguments the wrapped function received: none before it is called
NotCalled == [args |-> None, trace_id |-> None]

IdleWrapper ==
    [pc |-> "idle", impl |-> None, args |-> None, kw |-> None,
     received |-> NotCalled, calls |-> 0, func |-> NoOutcome,
     exc |-> NoOutcome, out |-> NoOutcome, backend |-> <<>>]

IdleHelper ==
    [pc |-> "idle", name |-> None, trace_id |-> None, calls |-> 0,
     failed |-> FALSE, raised |-> NoExc]

IdleEmbed ==
    [pc |-> "idle", n |-> 0, batch |-> 0, spans |-> <<>>, raised |-> NoExc]

\* no tracing call in progress
TracingIdle ==
    /\ wrapper = IdleWrapper
    /\ helper = IdleHelper
    /\ embed = IdleEmbed

----------------------------------------------------------------------------
\* __init__, lines 22-29, and no call in progress
InitShipper ==
    /\ access_token = None
    /\ refresh_token = None
    /\ expires_at = NoTime
    /\ now = StartTime
    /\ authed = FALSE
    /\ pc = [t \in Threads |-> "idle"]
    /\ op = [t \in Threads |-> "none"]
    /\ attempt = [t \in Threads |-> 0]
    /\ current_time = [t \in Threads |-> NoTime]
    /\ log_entry = [t \in Threads |-> None]
    /\ request = [t \in Threads |-> NoRequest]
    /\ response = [t \in Threads |-> NoResponse]
    /\ seen = [t \in Threads |-> NoCredential]
    /\ raised = [t \in Threads |-> NoExc]
    /\ result = [t \in Threads |-> None]
    /\ events = [t \in Threads |-> <<>>]
    /\ start = [t \in Threads |-> NoCredential]
    /\ config = Config

Init ==
    /\ InitShipper
    /\ concurrent = FALSE
    /\ is_langfuse_configured = FALSE
    /\ TracingIdle

AllIdle == \A t \in Threads : pc[t] = "idle"

\* the clock moves between any two steps
Tick ==
    /\ now < MaxNow
    /\ now' = now + 1
    /\ UNCHANGED <<shipper, authed, locals>>
    /\ UNCHANGED others

\* log_success, lines 163-184: build the entry, enter _insert_log
LogSuccess(t, e) ==
    /\ pc[t] = "idle"
    /\ op' = [op EXCEPT ![t] = "log_success"]
    /\ log_entry' = [log_entry EXCEPT ![t] = e]
    /\ attempt' = [attempt EXCEPT ![t] = 1]
    /\ events' = [events EXCEPT ![t] = <<Event("_insert_log", TRUE, "first")>>]
    /\ start' = [start EXCEPT ![t] = CurrentCredential]
    /\ pc' = [pc EXCEPT ![t] = "gvt"]
    /\ UNCHANGED <<shipper, now, authed, current_time, request, response, seen, raised, result>>
    /\ UNCHANGED others

\* a direct call of _get_valid_token
GetValidToken(t) ==
    /\ pc[t] = "idle"
    /\ op' = [op EXCEPT ![t] = "get_valid_token"]
    /\ start' = [start EXCEPT ![t] = CurrentCredential]
    /\ pc' = [pc EXCEPT ![t] = "gvt"]
    /\ UNCHANGED <<shipper, now, authed, attempt, current_time, log_entry, request,
                   response, seen, raised, result, events>>
    /\ UNCHANGED others

\* a direct call of _authenticate, up to requests.post (lines 105-116)
Authenticate(t) ==
    /\ pc[t] = "idle"
    /\ op' = [op EXCEPT ![t] = "authenticate"]
    /\ start' = [start EXCEPT ![t] = CurrentCredential]
    /\ request' = [request EXCEPT ![t] = AuthRequest]
    /\ pc' = [pc EXCEPT ![t] = "auth_wait"]
    /\ UNCHANGED <<shipper, now, authed, attempt, current_time, log_entry,
                   response, seen, raised, result, events>>
    /\ UNCHANGED others

\* a direct call of _refresh_token, up to requests.post (lines 77-87)
Refresh(t) ==
    /\ pc[t] = "idle"
    /\ op' = [op EXCEPT ![t] = "refresh"]
    /\ start' = [start EXCEPT ![t] = CurrentCredential]
    /\ request' = [request EXCEPT ![t] = RefreshRequest(refresh_token)]
    /\ pc' = [pc EXCEPT ![t] = "refresh_wait"]
    /\ UNCHANGED <<shipper, now, authed, attempt, current_time, log_entry,
                   response, seen, raised, result, events>>
    /\ UNCHANGED others

\* _get_valid_token, lines 52-73, up to the requests.post of the exchange it
\* chooses or to the final return
GetValidTokenBranch(t) ==
    /\ pc[t] = "gvt"
    /\ LET path == GetValidTokenPath(access_token, refresh_token, expires_at, now) IN
        /\ current_time' = [current_time EXCEPT ![t] = IF Truthy(access_token) THEN now ELSE NoTime]
        /\ seen' = [seen EXCEPT ![t] = CurrentCredential]
        /\ request' = [request EXCEPT ![t] =
                          IF path = "authenticate" THEN AuthRequest
                          ELSE IF path = "refresh" THEN RefreshRequest(refresh_token)
                          ELSE @]
        /\ pc' = [pc EXCEPT ![t] =
                          IF path = "authenticate" THEN "auth_wait"
                          ELSE IF path = "refresh" THEN "refresh_wait"
                          ELSE "gvt_ret"]
    /\ response' = [response EXCEPT ![t] = NoResponse]
    /\ UNCHANGED <<shipper, now, authed, op, attempt, log_entry, raised,
                   result, events, start>>
    /\ UNCHANGED others

\* _authenticate, lines 117-130: the response arrives
AuthenticateResponse(t, r) ==
    /\ pc[t] = "auth_wait"
    /\ LET x == TokenExchange(r, access_token, refresh_token, expires_at, now)
           p == Propagate(op[t], attempt[t], x.exc)
       IN
        /\ access_token' = x.access_token
        /\ refresh_token' = x.refresh_token
        /\ expires_at' = x.expires_at
        /\ response' = [response EXCEPT ![t] = r]
        /\ request' = [request EXCEPT ![t] = NoRequest]
        /\ events' = [events EXCEPT ![t] = Append(@, Event("authenticate", x.exc = NoExc, ""))]
        /\ IF x.exc = NoExc
           THEN /\ authed' = TRUE
                /\ pc' = [pc EXCEPT ![t] = IF op[t] = "authenticate" THEN "done" ELSE "gvt_ret"]
                /\ UNCHANGED raised
           ELSE /\ authed' = authed
                /\ pc' = [pc EXCEPT ![t] = p.pc]
                /\ raised' = [raised EXCEPT ![t] = p.raised]
    /\ UNCHANGED <<now, op, attempt, current_time, log_entry, seen, result, start>>
    /\ UNCHANGED others

\* _refresh_token, lines 88-101, and on failure inside _get_valid_token the
\* handler of lines 62-65, up to the requests.post of _authenticate
RefreshResponse(t, r) ==
    /\ pc[t] = "refresh_wait"
    /\ LET x == TokenExchange(r, access_token, refresh_token, expires_at, now) IN
        /\ access_token' = x.access_token
        /\ refresh_token' = x.refresh_token
        /\ expires_at' = x.expires_at
        /\ response' = [response EXCEPT ![t] = r]
        /\ events' = [events EXCEPT ![t] = Append(@, Event("refresh", x.exc = NoExc, ""))]
        /\ IF x.exc = NoExc
           THEN /\ authed' = TRUE
                /\ pc' = [pc EXCEPT ![t] = IF op[t] = "refresh" THEN "done" ELSE "gvt_ret"]
                /\ request' = [request EXCEPT ![t] = NoRequest]
                /\ UNCHANGED raised
           ELSE IF op[t] = "refresh"
           THEN /\ authed' = authed
                /\ pc' = [pc EXCEPT ![t] = "done"]
                /\ raised' = [raised EXCEPT ![t] = x.exc]
                /\ request' = [request EXCEPT ![t] = NoRequest]
           ELSE /\ authed' = authed
                /\ pc' = [pc EXCEPT ![t] = "auth_wait"]
                /\ request' = [request EXCEPT ![t] = AuthRequest]
                /\ UNCHANGED raised
    /\ UNCHANGED <<now, op, attempt, current_time, log_entry, seen, result, start>>
    /\ UNCHANGED others

\* `return self.access_token` of _get_valid_token (lines 54, 61, 66, 71, 73)
\* and, inside _insert_log, lines 206-216 up to requests.post
ReturnToken(t) ==
    /\ pc[t] = "gvt_ret"
    /\ IF op[t] = "get_valid_token"
       THEN /\ result' = [result EXCEPT ![t] = access_token]
            /\ pc' = [pc EXCEPT ![t] = "done"]
            /\ UNCHANGED <<request, response, seen, current_time>>
       ELSE /\ request' = [request EXCEPT ![t] = InsertRequest(access_token, log_entry[t])]
            /\ pc' = [pc EXCEPT ![t] = "insert_wait"]
            /\ response' = [response EXCEPT ![t] = NoResponse]
            /\ seen' = [seen EXCEPT ![t] = NoCredential]
            /\ current_time' = [current_time EXCEPT ![t] = NoTime]
            /\ UNCHANGED result
    /\ UNCHANGED <<shipper, now, authed, op, attempt, log_entry, raised, events, start>>
    /\ UNCHANGED others

\* _insert_log, lines 218-219: the response to the insert arrives
InsertResponse(t, s) ==
    /\ pc[t] = "insert_wait"
    /\ LET e == IF s = "200" THEN NoExc
                ELSE IF s = "transport_error" THEN "ConnectionError" ELSE "HTTPError"
           p == Propagate(op[t], attempt[t], e)
       IN
        /\ events' = [events EXCEPT ![t] =
                         Append(@, [k |-> "insert", ok |-> (s = "200"), detail |-> s,
                                    carried |-> request[t].carried,
                                    payload |-> request[t].payload])]
        /\ request' = [request EXCEPT ![t] = NoRequest]
        /\ IF e = NoExc
           THEN /\ pc' = [pc EXCEPT ![t] = "done"]
                /\ UNCHANGED raised
           ELSE /\ pc' = [pc EXCEPT ![t] = p.pc]
                /\ raised' = [raised EXCEPT ![t] = p.raised]
    /\ UNCHANGED <<shipper, now, authed, op, attempt, current_time, log_entry,
                   response, seen, result, start>>
    /\ UNCHANGED others

\* faulty variant: the outer handler builds the entry again for the retry
InvalidateRebuildsEntry(t) ==
    /\ pc[t] = "ls_except"
    /\ access_token' = None
    /\ authed' = FALSE
    /\ attempt' = [attempt EXCEPT ![t] = 2]
    /\ log_entry' = [log_entry EXCEPT ![t] = CHOOSE e \in Entries : e # log_entry[t]]
    /\ events' = [events EXCEPT ![t] =
                     @ \o <<Event("invalidate", TRUE, ""), Event("_insert_log", TRUE, "retry")>>]
    /\ response' = [response EXCEPT ![t] = NoResponse]
    /\ seen' = [seen EXCEPT ![t] = NoCredential]
    /\ current_time' = [current_time EXCEPT ![t] = NoTime]
    /\ pc' = [pc EXCEPT ![t] = "gvt"]
    /\ UNCHANGED <<refresh_token, expires_at, now, op, request, raised, result, start>>
    /\ UNCHANGED others

\* faulty variant: the outer handler retries without dropping the access token
InvalidateKeepsToken(t) ==
    /\ pc[t] = "ls_except"
    /\ attempt' = [attempt EXCEPT ![t] = 2]
    /\ events' = [events EXCEPT ![t] =
                     @ \o <<Event("invalidate", TRUE, ""), Event("_insert_log", TRUE, "retry")>>]
    /\ response' = [response EXCEPT ![t] = NoResponse]
    /\ seen' = [seen EXCEPT ![t] = NoCredential]
    /\ current_time' = [current_time EXCEPT ![t] = NoTime]
    /\ pc' = [pc EXCEPT ![t] = "gvt"]
    /\ UNCHANGED <<shipper, authed, now, op, log_entry, request, raised, result, start>>
    /\ UNCHANGED others

\* log_success, lines 186-191: the outer handler drops the access token and
\* enters _insert_log again
Invalidate(t) ==
    /\ pc[t] = "ls_except"
    /\ access_token' = None
    /\ authed' = FALSE
    /\ attempt' = [attempt EXCEPT ![t] = 2]
    /\ events' = [events EXCEPT ![t] =
                     @ \o <<Event("invalidate", TRUE, ""), Event("_insert_log", TRUE, "retry")>>]
    /\ response' = [response EXCEPT ![t] = NoResponse]
    /\ seen' = [seen EXCEPT ![t] = NoCredential]
    /\ current_time' = [current_time EXCEPT ![t] = NoTime]
    /\ pc' = [pc EXCEPT ![t] = "gvt"]
    /\ UNCHANGED <<refresh_token, expires_at, now, op, log_entry,
                   request, raised, result, start>>
    /\ UNCHANGED others

\* the called method has returned or raised; its locals are gone
Return(t) ==
    /\ pc[t] = "done"
    /\ pc' = [pc EXCEPT ![t] = "idle"]
    /\ op' = [op EXCEPT ![t] = "none"]
    /\ attempt' = [attempt EXCEPT ![t] = 0]
    /\ current_time' = [current_time EXCEPT ![t] = NoTime]
    /\ log_entry' = [log_entry EXCEPT ![t] = None]
    /\ request' = [request EXCEPT ![t] = NoRequest]
    /\ response' = [response EXCEPT ![t] = NoResponse]
    /\ seen' = [seen EXCEPT ![t] = NoCredential]
    /\ raised' = [raised EXCEPT ![t] = NoExc]
    /\ result' = [result EXCEPT ![t] = None]
    /\ events' = [events EXCEPT ![t] = <<>>]
    /\ start' = [start EXCEPT ![t] = NoCredential]
    /\ UNCHANGED <<shipper, now, authed>>
    /\ UNCHANGED others

\* sequential use: one call at a time on the shipper
Next ==
    \/ Tick
    \/ \E t \in Threads :
        \/ AllIdle /\ \E e \in Entries : LogSuccess(t, e)
        \/ AllIdle /\ GetValidToken(t)
        \/ AllIdle /\ Authenticate(t)
        \/ AllIdle /\ Refresh(t)
        \/ GetValidTokenBranch(t)
        \/ \E r \in TokenResponses : AuthenticateResponse(t, r)
        \/ \E r \in TokenResponses : RefreshResponse(t, r)
        \/ ReturnToken(t)
        \/ \E s \in InsertResponses : InsertResponse(t, s)
        \/ Invalidate(t)
        \/ Return(t)

Spec == Init /\ [][Next]_vars

----------------------------------------------------------------------------
(* Reading the history of a call *)

Kinds(ev) == [i \in DOMAIN ev |-> ev[i].k]

Count(ev, k) == Cardinality({i \in DOMAIN ev : ev[i].k = k})

IsInsert(e) == e.k = "insert"

IsAuthenticate(e) == e.k = "authenticate"

\* the HTTP exchanges a call has started: those answered and the one in flight
HttpCount(t) ==
    Count(events[t], "authenticate") + Count(events[t], "refresh")
    + Count(events[t], "insert") + (IF request[t].k = "none" THEN 0 ELSE 1)

\* where the retry starts in the history, Len + 1 when there is none
RetryAt(ev) ==
    IF \E i \in DOMAIN ev : ev[i].k = "_insert_log" /\ ev[i].detail = "retry"
    THEN CHOOSE i \in DOMAIN ev : ev[i].k = "_insert_log" /\ ev[i].detail = "retry"
    ELSE Len(ev) + 1

\* an exchange whose failure ends an _insert_log
EndsAttempt(e) == e.k \in {"authenticate", "insert"} /\ ~e.ok

FirstAttemptFailed(ev) == \E i \in DOMAIN ev : i < RetryAt(ev) /\ EndsAttempt(ev[i])

Finished(t, o) == pc[t] = "done" /\ op[t] = o

----------------------------------------------------------------------------
\* C1: log_success never lets an exception out, whatever the Credential was
\* and whatever the authenticate, refresh and insert exchanges answered, also
\* when both inserts fail.
C1_LogSuccessNeverRaises ==
    \A t \in Threads : op[t] = "log_success" => raised[t] = NoExc

\* a log_success that ended after two failed inserts
C1_Witness ==
    \E t \in Threads :
        /\ Finished(t, "log_success")
        /\ Len(SelectSeq(events[t], IsInsert)) = 2
        /\ \A i \in DOMAIN events[t] : events[t][i].k = "insert" => ~events[t][i].ok

\* C2: one log_success enters _insert_log at most twice and sends at most two
\* insert requests; a failed first attempt (token or insert) is followed by
\* exactly one invalidation, which has cleared access_token when the retry
\* starts; a first attempt that succeeds is followed by none.
C2_AtMostOneRetry ==
    \A t \in Threads : op[t] = "log_success" =>
        /\ Count(events[t], "_insert_log") <= 2
        /\ Count(events[t], "insert") <= 2
        /\ Count(events[t], "invalidate") <= 1
        /\ (pc[t] = "gvt" /\ attempt[t] = 2) => access_token = None
        /\ pc[t] = "done" =>
            IF FirstAttemptFailed(events[t])
            THEN /\ Count(events[t], "invalidate") = 1
                 /\ Count(events[t], "_insert_log") = 2
                 /\ \E i \in DOMAIN events[t] :
                        /\ EndsAttempt(events[t][i])
                        /\ events[t][i + 1].k = "invalidate"
                        /\ RetryAt(events[t]) = i + 2
            ELSE /\ Count(events[t], "invalidate") = 0
                 /\ Count(events[t], "_insert_log") = 1

\* a log_success whose first attempt failed while obtaining the token and
\* whose retry was made
C2_Witness ==
    \E t \in Threads :
        /\ Finished(t, "log_success")
        /\ events[t][2].k = "authenticate" /\ ~events[t][2].ok
        /\ Count(events[t], "invalidate") = 1
        /\ Count(events[t], "insert") = 1

\* the scenario of C3: the shipper held nothing when log_success started,
\* every authenticate exchange succeeded, the first insert was answered 401
\* and a second one, if made, 200
Scenario401Then200(t) ==
    /\ Finished(t, "log_success")
    /\ start[t] = NoCredential
    /\ \A i \in DOMAIN events[t] : events[t][i].k = "authenticate" => events[t][i].ok
    /\ LET ins == SelectSeq(events[t], IsInsert) IN
        /\ Len(ins) >= 1
        /\ ins[1].detail = "401"
        /\ Len(ins) >= 2 => ins[2].detail = "200"

\* C3 as stated: the scenario makes exactly one authenticate call, one failed
\* insert, one invalidation, one successful insert, and raises nothing.
C3_Original ==
    \A t \in Threads : Scenario401Then200(t) =>
        /\ Count(events[t], "authenticate") = 1
        /\ Count(events[t], "invalidate") = 1
        /\ Kinds(SelectSeq(events[t], IsInsert)) = <<"insert", "insert">>
        /\ raised[t] = NoExc

\* C3 amended: the scenario makes two authenticate calls, one before each
\* insert (the invalidation forces the second), one failed insert, one
\* invalidation, one successful insert, and raises nothing.
C3_ScenarioTwoAuthenticates ==
    \A t \in Threads : Scenario401Then200(t) =>
        /\ Kinds(events[t]) = <<"_insert_log", "authenticate", "insert", "invalidate",
                                "_insert_log", "authenticate", "insert">>
        /\ ~events[t][3].ok /\ events[t][7].ok
        /\ events[t][7].carried = access_token
        /\ raised[t] = NoExc

C3_Witness == \E t \in Threads : Scenario401Then200(t)

\* the expiry a well-formed token response answers with, counted from time n
ParsedExpiry(r, n) == n + (IF r.expires_in = MissingNum THEN DefaultExpiresIn ELSE r.expires_in)

\* C4: a direct _authenticate or _refresh_token leaves the Credential either
\* as it was (whenever it raises) or entirely as parsed from the response.
C4_AtomicUpdate ==
    \A t \in Threads : (pc[t] = "done" /\ op[t] \in {"authenticate", "refresh"}) =>
        IF raised[t] # NoExc
        THEN CurrentCredential = start[t]
        ELSE /\ access_token = response[t].access_token
             /\ refresh_token = response[t].refresh_token
             /\ \E n \in StartTime..now : expires_at = ParsedExpiry(response[t], n)

----------------------------------------------------------------------------
(* Inside _get_valid_token *)

\* the caller is past lines 52-58 of a _get_valid_token it has not left
InGetValidToken(t) ==
    /\ op[t] \in {"get_valid_token", "log_success"}
    /\ \/ pc[t] \in {"auth_wait", "refresh_wait", "gvt_ret"}
       \/ Finished(t, "get_valid_token")

\* the history of the _get_valid_token the caller is in
GvtEvents(t) ==
    LET ev == events[t]
        marks == {i \in DOMAIN ev : ev[i].k = "_insert_log"}
        last == IF marks = {} THEN 0 ELSE CHOOSE i \in marks : \A j \in marks : j <= i
    IN SubSeq(ev, last + 1, Len(ev))

\* what _get_valid_token found: a token past its expiry
FoundExpired(t) ==
    /\ Truthy(seen[t].access_token)
    /\ TruthyTime(seen[t].expires_at)
    /\ current_time[t] >= seen[t].expires_at

\* what _get_valid_token found: a token before its expiry
FoundFresh(t) ==
    /\ Truthy(seen[t].access_token)
    /\ TruthyTime(seen[t].expires_at)
    /\ current_time[t] < seen[t].expires_at

\* C5: with an expired access token and a refresh token, _get_valid_token
\* makes exactly one refresh exchange first; when it succeeds no authenticate
\* exchange is made and the token it brought is returned; when it fails
\* exactly one authenticate exchange follows in the same invocation.
C5_RefreshThenAuthenticate ==
    \A t \in Threads :
        (InGetValidToken(t) /\ FoundExpired(t) /\ Truthy(seen[t].refresh_token)) =>
            LET ev == GvtEvents(t) IN
            /\ pc[t] = "refresh_wait" =>
                /\ ev = <<>>
                /\ request[t] = RefreshRequest(seen[t].refresh_token)
            /\ pc[t] = "auth_wait" =>
                /\ Kinds(ev) = <<"refresh">> /\ ~ev[1].ok
                /\ request[t] = AuthRequest
            /\ pc[t] = "gvt_ret" =>
                /\ \/ Kinds(ev) = <<"refresh">> /\ ev[1].ok
                   \/ Kinds(ev) = <<"refresh", "authenticate">> /\ ~ev[1].ok /\ ev[2].ok
                /\ access_token = response[t].access_token
            /\ Finished(t, "get_valid_token") =>
                IF raised[t] = NoExc
                THEN /\ \/ Kinds(ev) = <<"refresh">> /\ ev[1].ok
                        \/ Kinds(ev) = <<"refresh", "authenticate">> /\ ~ev[1].ok /\ ev[2].ok
                     /\ result[t] = response[t].access_token
                ELSE Kinds(ev) = <<"refresh", "authenticate">> /\ ~ev[1].ok /\ ~ev[2].ok

\* a _get_valid_token that returned the token of a successful refresh, and
\* one inside log_success that fell back to authenticate
C5_Witness ==
    /\ \E t \in Threads :
        /\ Finished(t, "get_valid_token") /\ FoundExpired(t) /\ Truthy(seen[t].refresh_token)
        /\ Kinds(events[t]) = <<"refresh">>
        /\ result[t] # seen[t].access_token

C5_WitnessFallback ==
    \E t \in Threads :
        /\ InGetValidToken(t) /\ FoundExpired(t) /\ Truthy(seen[t].refresh_token)
        /\ op[t] = "log_success" /\ pc[t] = "gvt_ret"
        /\ Kinds(GvtEvents(t)) = <<"refresh", "authenticate">>

\* C6: with no access token stored, _get_valid_token makes exactly one
\* authenticate exchange and no refresh exchange, whatever refresh token and
\* expiry are held, and returns the access token that exchange stored.
C6_NoTokenAuthenticatesOnce ==
    \A t \in Threads :
        (InGetValidToken(t) /\ ~Truthy(seen[t].access_token)) =>
            LET ev == GvtEvents(t) IN
            /\ pc[t] # "refresh_wait"
            /\ pc[t] = "auth_wait" => ev = <<>> /\ request[t] = AuthRequest
            /\ pc[t] = "gvt_ret" =>
                /\ Kinds(ev) = <<"authenticate">> /\ ev[1].ok
                /\ access_token = response[t].access_token
            /\ Finished(t, "get_valid_token") =>
                /\ Kinds(ev) = <<"authenticate">>
                /\ ev[1].ok <=> raised[t] = NoExc
                /\ raised[t] = NoExc =>
                    /\ result[t] = response[t].access_token
                    /\ result[t] = access_token
                    /\ result[t] \in Tokens

\* a _get_valid_token that authenticated although a refresh token and a past
\* expiry were held
C6_Witness ==
    \E t \in Threads :
        /\ Finished(t, "get_valid_token")
        /\ seen[t].access_token = None
        /\ seen[t].refresh_token # None
        /\ TruthyTime(seen[t].expires_at) /\ seen[t].expires_at <= now
        /\ raised[t] = NoExc

\* C7: with an access token that has not expired, _get_valid_token makes no
\* HTTP exchange, returns the stored token and leaves the three fields alone.
C7_FreshTokenNoNetwork ==
    \A t \in Threads :
        (InGetValidToken(t) /\ FoundFresh(t)) =>
            /\ pc[t] \notin {"auth_wait", "refresh_wait"}
            /\ GvtEvents(t) = <<>>
            /\ request[t] = NoRequest
            /\ CurrentCredential = seen[t]
            /\ Finished(t, "get_valid_token") =>
                /\ result[t] = seen[t].access_token
                /\ raised[t] = NoExc

\* a _get_valid_token that returned a stored, unexpired token while a refresh
\* token was held
C7_Witness ==
    \E t \in Threads :
        /\ Finished(t, "get_valid_token") /\ FoundFresh(t)
        /\ Truthy(seen[t].refresh_token)
        /\ result[t] \in Tokens

\* C8 as stated: one log_success makes at most three HTTP exchanges.
C8_Original ==
    \A t \in Threads : op[t] = "log_success" => HttpCount(t) <= 3

\* C8 amended: one log_success makes at most five HTTP exchanges: at most
\* three in the first attempt (refresh, authenticate, insert) and at most two
\* in the retry (authenticate, insert).
C8_AtMostFiveExchanges ==
    \A t \in Threads : op[t] = "log_success" =>
        /\ HttpCount(t) <= 5
        /\ Count(events[t], "refresh") <= 1
        /\ Count(events[t], "authenticate") <= 2
        /\ Count(events[t], "insert") <= 2
        /\ Len(events[t]) - RetryAt(events[t]) <= 2
        /\ \A i \in DOMAIN events[t] : events[t][i].k = "refresh" => i < RetryAt(events[t])

\* a log_success that made five exchanges
C8_Witness ==
    \E t \in Threads :
        /\ Finished(t, "log_success")
        /\ Kinds(events[t]) = <<"_insert_log", "refresh", "authenticate", "insert", "invalidate",
                                "_insert_log", "authenticate", "insert">>

\* C9: access_token is absent exactly when no authenticate or refresh has
\* succeeded since construction or since the last invalidation.
C9_AbsentIffNotAuthenticated ==
    (access_token = None) <=> ~authed

\* C10 as stated: every failed authenticate or refresh exchange inside
\* _get_valid_token reaches its caller as an exception.
C10_Original ==
    \A t \in Threads : Finished(t, "get_valid_token") =>
        ((\E i \in DOMAIN events[t] : ~events[t][i].ok) => raised[t] # NoExc)

\* C10 amended: every failed authenticate exchange leaves _get_valid_token as
\* an exception; a failed refresh exchange is caught inside _get_valid_token,
\* which then authenticates, and reaches the caller only if that authenticate
\* fails too.  Inside log_success a failed authenticate ends the attempt: no
\* insert follows it, the outer handler invalidates or the inner one ends the
\* call.
C10_AuthenticateFailurePropagates ==
    \A t \in Threads :
        LET ev == events[t] IN
        /\ Finished(t, "get_valid_token") =>
            /\ raised[t] # NoExc <=> (ev # <<>> /\ IsAuthenticate(ev[Len(ev)]) /\ ~ev[Len(ev)].ok)
            /\ \A i \in DOMAIN ev : (ev[i].k = "refresh" /\ ~ev[i].ok) =>
                    (i < Len(ev) /\ ev[i + 1].k = "authenticate")
        /\ (pc[t] = "done" /\ op[t] \in {"authenticate", "refresh"}) =>
            (raised[t] # NoExc <=> ~ev[1].ok)
        /\ op[t] = "log_success" =>
            \A i \in DOMAIN ev : (ev[i].k = "authenticate" /\ ~ev[i].ok) =>
                IF i < Len(ev) THEN ev[i + 1].k = "invalidate"
                ELSE pc[t] \in {"ls_except", "done"}

\* a _get_valid_token that raised after a failed refresh and a failed
\* authenticate
C10_Witness ==
    \E t \in Threads :
        /\ Finished(t, "get_valid_token")
        /\ Kinds(events[t]) = <<"refresh", "authenticate">>
        /\ raised[t] # NoExc

----------------------------------------------------------------------------
\* C11: the entry built by log_success is the payload of every insert of the
\* call, the retry's as the first one's; the call writes nothing of the
\* shipper but the Credential fields, and nothing holds the entry once the
\* call has returned.
C11_EntryNeverMutated ==
    /\ config = Config
    /\ \A t \in Threads :
        /\ op[t] = "log_success" =>
            /\ log_entry[t] \in Entries
            /\ request[t].k = "insert" => request[t].payload = log_entry[t]
            /\ \A i \in DOMAIN events[t] :
                   events[t][i].k = "insert" => events[t][i].payload = log_entry[t]
        /\ pc[t] = "idle" =>
            /\ log_entry[t] = None
            /\ request[t] = NoRequest
            /\ events[t] = <<>>

\* a log_success whose two inserts both failed, sent with the second entry
C11_Witness ==
    \E t \in Threads :
        /\ Finished(t, "log_success")
        /\ log_entry[t] = "e2"
        /\ Len(SelectSeq(events[t], IsInsert)) = 2
        /\ ~events[t][Len(events[t])].ok

\* the history of the retry of a log_success: what follows its second
\* _insert_log
RetryEvents(t) == SubSeq(events[t], RetryAt(events[t]) + 1, Len(events[t]))

\* C15: the retry of log_success starts with full authentication: its first
\* exchange is an authenticate, it makes no refresh, its insert carries the
\* token that authenticate stored, and no insert is sent when it fails; this
\* also when the first attempt used a stored, unexpired token.
C15_RetryReauthenticates ==
    \A t \in Threads : (op[t] = "log_success" /\ attempt[t] = 2) =>
        LET ev == RetryEvents(t) IN
        /\ pc[t] # "refresh_wait"
        /\ pc[t] = "auth_wait" => ev = <<>>
        /\ pc[t] = "gvt_ret" =>
            /\ Kinds(ev) = <<"authenticate">> /\ ev[1].ok
            /\ access_token = response[t].access_token
        /\ pc[t] = "insert_wait" =>
            /\ Kinds(ev) = <<"authenticate">> /\ ev[1].ok
            /\ request[t].carried = access_token
            /\ request[t].carried \in Tokens
        /\ pc[t] = "done" =>
            \/ Kinds(ev) = <<"authenticate">> /\ ~ev[1].ok
            \/ /\ Kinds(ev) = <<"authenticate", "insert">>
               /\ ev[1].ok
               /\ ev[2].carried = access_token

\* a retry after a first attempt that sent its insert with a stored,
\* unexpired token while a refresh token was held
C15_Witness ==
    \E t \in Threads :
        /\ Finished(t, "log_success")
        /\ Kinds(events[t]) = <<"_insert_log", "insert", "invalidate",
                                "_insert_log", "authenticate", "insert">>
        /\ Truthy(start[t].refresh_token)
        /\ events[t][2].carried = start[t].access_token

\* C16: with an expired access token and no refresh token, _get_valid_token
\* makes exactly one authenticate exchange and no refresh exchange, and
\* returns the token that exchange stored.
C16_ExpiredNoRefreshAuthenticates ==
    \A t \in Threads :
        (InGetValidToken(t) /\ FoundExpired(t) /\ ~Truthy(seen[t].refresh_token)) =>
            LET ev == GvtEvents(t) IN
            /\ pc[t] # "refresh_wait"
            /\ pc[t] = "auth_wait" => ev = <<>> /\ request[t] = AuthRequest
            /\ pc[t] = "gvt_ret" =>
                /\ Kinds(ev) = <<"authenticate">> /\ ev[1].ok
                /\ access_token = response[t].access_token
            /\ Finished(t, "get_valid_token") =>
                /\ Kinds(ev) = <<"authenticate">>
                /\ ev[1].ok <=> raised[t] = NoExc
                /\ raised[t] = NoExc =>
                    /\ result[t] = response[t].access_token
                    /\ result[t] = access_token

\* a _get_valid_token that replaced an expired token by authenticating, no
\* refresh token being held
C16_Witness ==
    \E t \in Threads :
        /\ Finished(t, "get_valid_token") /\ FoundExpired(t)
        /\ ~Truthy(seen[t].refresh_token)
        /\ raised[t] = NoExc
        /\ result[t] # seen[t].access_token

\* a token exchange has just been answered with success
JustExchanged(t) ==
    /\ pc[t] \in {"auth_wait", "refresh_wait"}
    /\ Len(events'[t]) = Len(events[t]) + 1
    /\ events'[t][Len(events'[t])].ok

\* C17, the stored expiry: a successful authenticate or refresh at time t
\* stores t + expires_in, 3600 standing for an absent expires_in.
C17_StoredExpiry ==
    \A t \in Threads : JustExchanged(t) =>
        expires_at' = now + (IF response'[t].expires_in = MissingNum
                             THEN 3600 ELSE response'[t].expires_in)

\* C17, the test: _get_valid_token with a stored token makes no exchange
\* before the expiry and a refresh or an authenticate from the expiry on.
C17_ExpiryTest ==
    \A t \in Threads :
        (InGetValidToken(t) /\ Truthy(seen[t].access_token) /\ TruthyTime(seen[t].expires_at)) =>
            IF current_time[t] < seen[t].expires_at
            THEN GvtEvents(t) = <<>> /\ request[t] = NoRequest
            ELSE \/ request[t].k \in {"refresh", "authenticate"} /\ GvtEvents(t) = <<>>
                 \/ GvtEvents(t) # <<>> /\ GvtEvents(t)[1].k \in {"refresh", "authenticate"}

\* C17: expires_at = t + expires_in (3600 by default) after a successful
\* exchange at t; a later _get_valid_token at t' makes no network call when
\* t' < expires_at and refreshes or authenticates when t' >= expires_at.
C17_ExpiryArithmetic == [][C17_StoredExpiry]_vars /\ []C17_ExpiryTest

\* a _get_valid_token at exactly the stored expiry, which it treated as expired
C17_Witness ==
    \E t \in Threads :
        /\ InGetValidToken(t)
        /\ Truthy(seen[t].access_token)
        /\ current_time[t] = seen[t].expires_at
        /\ GvtEvents(t) # <<>>

----------------------------------------------------------------------------
(* Overlapping calls.  The shipper has no lock, so a host that serves       *)
(* several requests at once lets the steps of two log_success calls         *)
(* interleave between any two of their blocking points.  InitConc chooses   *)
(* whether the host does so; when it does, the answers of the servers are   *)
(* drawn from ConcTokenResponses and ConcInsertResponses, subsets of the    *)
(* answers of sequential use.                                               *)

ConcTokenResponses ==
    [status : {"ok"}, json : {TRUE}, access_token : {"a1"},
     refresh_token : {"r1"}, expires_in : ExpiresInValues]

ConcInsertResponses == {"200", "401"}

ConcEntries == {"e1"}

InitConc ==
    /\ InitShipper
    /\ concurrent \in BOOLEAN
    /\ is_langfuse_configured = FALSE
    /\ TracingIdle

NextConc ==
    \/ Tick
    \/ \E t \in Threads :
        \/ /\ concurrent \/ AllIdle
           /\ \E e \in (IF concurrent THEN ConcEntries ELSE Entries) : LogSuccess(t, e)
        \/ ~concurrent /\ AllIdle /\ GetValidToken(t)
        \/ ~concurrent /\ AllIdle /\ Authenticate(t)
        \/ ~concurrent /\ AllIdle /\ Refresh(t)
        \/ GetValidTokenBranch(t)
        \/ \E r \in (IF concurrent THEN ConcTokenResponses ELSE TokenResponses) :
               AuthenticateResponse(t, r)
        \/ \E r \in (IF concurrent THEN ConcTokenResponses ELSE TokenResponses) :
               RefreshResponse(t, r)
        \/ ReturnToken(t)
        \/ \E s \in (IF concurrent THEN ConcInsertResponses ELSE InsertResponses) :
               InsertResponse(t, s)
        \/ Invalidate(t)
        \/ Return(t)

SpecConc == InitConc /\ [][NextConc]_vars

\* C12: with calls run one at a time every insert carries a present token,
\* the stored access_token while it is in flight, and no two refresh
\* exchanges are in flight together; overlapping calls reach states that
\* break this (C12_Witness, C12_WitnessDoubleRefresh).
C12_SequentialInsertCarriesToken ==
    ~concurrent =>
        /\ \A t \in Threads :
            /\ request[t].k = "insert" =>
                /\ request[t].carried \in Tokens
                /\ request[t].carried = access_token
            /\ \A i \in DOMAIN events[t] :
                   events[t][i].k = "insert" => events[t][i].carried \in Tokens
        /\ Cardinality({t \in Threads : request[t].k = "refresh"}) <= 1

\* overlapping calls: an insert is in flight without a bearer token, the
\* other caller's invalidation having landed between this caller's
\* authenticate and its `return self.access_token`
C12_Witness ==
    /\ concurrent
    /\ \E t \in Threads :
        /\ request[t].k = "insert"
        /\ request[t].carried = None
        /\ events[t][Len(events[t])].k = "authenticate"
        /\ events[t][Len(events[t])].ok

\* overlapping calls: both callers found the same expired token and each has
\* a refresh exchange in flight that carries the same refresh token
C12_WitnessDoubleRefresh ==
    /\ concurrent
    /\ \E t, u \in Threads :
        /\ t # u
        /\ request[t].k = "refresh" /\ request[u].k = "refresh"
        /\ request[t].carried = request[u].carried
        /\ seen[t] = seen[u]
        /\ FoundExpired(t) /\ FoundExpired(u)

----------------------------------------------------------------------------
(* safe_trace.  langfuse_utils.py lines 28-129 and langfuse_monitoring.py   *)
(* lines 26-109 define the same decorator; the copy of langfuse_utils also  *)
(* updates the error trace.  Every call into the tracing backend is an      *)
(* input: it succeeds (b = TRUE) or raises (b = FALSE).                     *)

TraceIds == {"t0"}
Args == {"x1"}

\* faulty variant: the trace_id keyword is popped before the configuration
\* is tested
FuncKwargsPopped(conf, kw, id) == IF conf THEN id ELSE NoKw

\* the trace_id keyword the wrapped function receives: lines 53-54 pass
\* kwargs through, lines 57 and 88 replace trace_id by the id of the trace
FuncKwargs(conf, kw, id) == IF conf THEN id ELSE kw

\* current_span.id, line 88: the id handed to langfuse.trace (line 84), a
\* generated one when that is None
SpanId(kw) == IF kw = NoKw THEN "generated" ELSE kw

BackendCall(c, b) == [call |-> c, ok |-> b]

\* wrapper, lines 52-89: up to the call of the wrapped function
SafeTraceCall(i, a, kw, b) ==
    /\ TracingIdle
    /\ wrapper' =
         IF ~is_langfuse_configured
         THEN [IdleWrapper EXCEPT !.pc = "func", !.impl = i, !.args = a,
                                  !.kw = kw, !.calls = 1,
                                  !.received = [args |-> a, trace_id |->
                                      FuncKwargs(FALSE, kw, SpanId(kw))]]
         ELSE IF b
         THEN [IdleWrapper EXCEPT !.pc = "func", !.impl = i, !.args = a,
                                  !.kw = kw, !.calls = 1,
                                  !.received = [args |-> a, trace_id |->
                                      FuncKwargs(TRUE, kw, SpanId(kw))],
                                  !.backend = <<BackendCall("trace", TRUE)>>]
         ELSE [IdleWrapper EXCEPT !.pc = "except", !.impl = i, !.args = a,
                                  !.kw = kw, !.exc = LangfuseError,
                                  !.backend = <<BackendCall("trace", FALSE)>>]
    /\ UNCHANGED <<shipper, now, authed, locals, config, concurrent>>
    /\ UNCHANGED <<is_langfuse_configured, helper, embed>>

\* the wrapped function ends: line 54 (its outcome is the wrapper's) or
\* line 89 (on to the update, or into the except clause of line 101)
FuncEnds(o) ==
    /\ wrapper.pc = "func"
    /\ wrapper' =
         IF ~is_langfuse_configured
         THEN [wrapper EXCEPT !.pc = "done", !.func = o, !.out = o]
         ELSE IF o.kind = "return"
         THEN [wrapper EXCEPT !.pc = "update", !.func = o]
         ELSE [wrapper EXCEPT !.pc = "except", !.func = o, !.exc = o]
    /\ UNCHANGED <<shipper, now, authed, locals, config, concurrent>>
    /\ UNCHANGED <<is_langfuse_configured, helper, embed>>

\* current_span.update(status="success") and return result, lines 95-100
SpanUpdate(b) ==
    /\ wrapper.pc = "update"
    /\ wrapper' =
         IF b
         THEN [wrapper EXCEPT !.pc = "done", !.out = wrapper.func,
                   !.backend = Append(@, BackendCall("update", TRUE))]
         ELSE [wrapper EXCEPT !.pc = "except", !.exc = LangfuseError,
                   !.backend = Append(@, BackendCall("update", FALSE))]
    /\ UNCHANGED <<shipper, now, authed, locals, config, concurrent>>
    /\ UNCHANGED <<is_langfuse_configured, helper, embed>>

\* except Exception, lines 101-114: create the trace "<name>_error"; the
\* copy of langfuse_monitoring re-raises right after it (line 105 there)
ErrorTrace(b) ==
    /\ wrapper.pc = "except"
    /\ wrapper' =
         IF ~b
         THEN [wrapper EXCEPT !.pc = "done", !.out = LangfuseError,
                   !.backend = Append(@, BackendCall("error_trace", FALSE))]
         ELSE IF wrapper.impl = "langfuse_utils"
         THEN [wrapper EXCEPT !.pc = "error_update",
                   !.backend = Append(@, BackendCall("error_trace", TRUE))]
         ELSE [wrapper EXCEPT !.pc = "done", !.out = wrapper.exc,
                   !.backend = Append(@, BackendCall("error_trace", TRUE))]
    /\ UNCHANGED <<shipper, now, authed, locals, config, concurrent>>
    /\ UNCHANGED <<is_langfuse_configured, helper, embed>>

\* error_trace.update(status="error") and raise, lines 120-125
ErrorTraceUpdate(b) ==
    /\ wrapper.pc = "error_update"
    /\ wrapper' =
         [wrapper EXCEPT !.pc = "done",
              !.out = IF b THEN wrapper.exc ELSE LangfuseError,
              !.backend = Append(@, BackendCall("error_update", b))]
    /\ UNCHANGED <<shipper, now, authed, locals, config, concurrent>>
    /\ UNCHANGED <<is_langfuse_configured, helper, embed>>

\* the caller has the outcome
SafeTraceReturn ==
    /\ wrapper.pc = "done"
    /\ wrapper' = IdleWrapper
    /\ UNCHANGED <<shipper, now, authed, locals, config, concurrent>>
    /\ UNCHANGED <<is_langfuse_configured, helper, embed>>

----------------------------------------------------------------------------
(* The log_* helpers of langfuse_utils.py, lines 182-334.                   *)

Helpers == {"log_llm_call", "log_retrieval", "log_user_feedback",
            "log_custom_span"}

\* trace_id: Optional[str]
HelperTraceIds == {None, "", "t0"}

\* `not trace_id`
Falsy(x) == x \in {None, ""}

\* faulty variant: the backend call is not inside a try block (as in the
\* helpers of langfuse_monitoring.py)
HelperOutcomeUnguarded(conf, h, id, d, b) ==
    IF ~conf \/ Falsy(id)
    THEN [calls |-> 0, failed |-> FALSE, raised |-> NoExc]
    ELSE IF h = "log_retrieval" /\ ~d
    THEN [calls |-> 0, failed |-> FALSE, raised |-> "AttributeError"]
    ELSE [calls |-> 1, failed |-> ~b,
          raised |-> IF b THEN NoExc ELSE "LangfuseError"]

\* one helper call: the guard (lines 203-204, 237-238, 278-279, 319-320),
\* then the try block with the single backend call; d says whether the
\* documents of log_retrieval can be walked (lines 243-249 are inside the
\* try), b whether the backend call succeeds; except Exception swallows
HelperOutcome(conf, h, id, d, b) ==
    IF ~conf \/ Falsy(id)
    THEN [calls |-> 0, failed |-> FALSE, raised |-> NoExc]
    ELSE IF h = "log_retrieval" /\ ~d
    THEN [calls |-> 0, failed |-> FALSE, raised |-> NoExc]
    ELSE [calls |-> 1, failed |-> ~b, raised |-> NoExc]

LogHelper(h, id, d, b) ==
    /\ TracingIdle
    /\ LET o == HelperOutcome(is_langfuse_configured, h, id, d, b)
       IN helper' = [pc |-> "done", name |-> h, trace_id |-> id,
                     calls |-> o.calls, failed |-> o.failed,
                     raised |-> o.raised]
    /\ UNCHANGED <<shipper, now, authed, locals, config, concurrent>>
    /\ UNCHANGED <<is_langfuse_configured, wrapper, embed>>

\* the caller goes on
HelperReturn ==
    /\ helper.pc = "done"
    /\ helper' = IdleHelper
    /\ UNCHANGED <<shipper, now, authed, locals, config, concurrent>>
    /\ UNCHANGED <<is_langfuse_configured, wrapper, embed>>

----------------------------------------------------------------------------
(* embed_with_langfuse, utils/langfuse.py lines 14-103.  The coroutine      *)
(* yields at `await client.embeddings.create`, so a step runs from one      *)
(* await to the next.                                                       *)

\* _OPENAI_MAX_INPUT_LEN, line 11
MaxInputLen == 2048

MaxBatches == 3

\* len(texts): nothing, and the first and the last size of each batch count
TextCounts ==
    {0} \cup {k * MaxInputLen + d : k \in 0..(MaxBatches - 1), d \in {1, MaxInputLen}}

\* len(batch_list(texts, _OPENAI_MAX_INPUT_LEN)), line 59
Batches(n) == (n + MaxInputLen - 1) \div MaxInputLen

SpanEvent(k, name, i) == [k |-> k, span |-> name, i |-> i]

\* lines 85-101: span.end, trace.update
EndOfOperation ==
    <<SpanEvent("end", "embedding_operation", 0), SpanEvent("update", "trace", 0)>>

\* lines 22-68: the trace, the embedding_operation span, and the first
\* batch's span and request; with no text, straight to lines 85-103
EmbedCall(n) ==
    /\ TracingIdle
    /\ LET opened == <<SpanEvent("start", "trace", 0),
                       SpanEvent("start", "embedding_operation", 0)>>
       IN embed' =
            IF Batches(n) = 0
            THEN [IdleEmbed EXCEPT !.pc = "done", !.n = n,
                                   !.spans = opened \o EndOfOperation]
            ELSE [IdleEmbed EXCEPT !.pc = "waiting", !.n = n, !.batch = 1,
                      !.spans = Append(opened, SpanEvent("start", "embedding_batch", 1))]
    /\ UNCHANGED <<shipper, now, authed, locals, config, concurrent>>
    /\ UNCHANGED <<is_langfuse_configured, wrapper, helper>>

\* the await of line 68 ends: with a response (lines 75-82, then the next
\* batch or lines 85-103) or with the exception of the request, which
\* leaves the coroutine
EmbedResponse(ok) ==
    /\ embed.pc = "waiting"
    /\ LET ended == Append(embed.spans,
                           SpanEvent("end", "embedding_batch", embed.batch))
       IN embed' =
            IF ~ok
            THEN [embed EXCEPT !.pc = "done", !.raised = "APIError"]
            ELSE IF embed.batch < Batches(embed.n)
            THEN [embed EXCEPT !.batch = @ + 1,
                      !.spans = Append(ended,
                          SpanEvent("start", "embedding_batch", embed.batch + 1))]
            ELSE [embed EXCEPT !.pc = "done",
                               !.spans = ended \o EndOfOperation]
    /\ UNCHANGED <<shipper, now, authed, locals, config, concurrent>>
    /\ UNCHANGED <<is_langfuse_configured, wrapper, helper>>

\* the caller has the embeddings or the exception
EmbedReturn ==
    /\ embed.pc = "done"
    /\ embed' = IdleEmbed
    /\ UNCHANGED <<shipper, now, authed, locals, config, concurrent>>
    /\ UNCHANGED <<is_langfuse_configured, wrapper, helper>>

----------------------------------------------------------------------------
(* Tracing: one call at a time of a wrapped function, a helper or           *)
(* embed_with_langfuse, with the keys of the backend set or not.            *)

InitTrace ==
    /\ InitShipper
    /\ concurrent = FALSE
    /\ is_langfuse_configured \in BOOLEAN
    /\ TracingIdle

NextTrace ==
    \/ \E i \in Implementations, a \in Args, kw \in TraceIds \cup {NoKw}, b \in BOOLEAN :
           SafeTraceCall(i, a, kw, b)
    \/ \E o \in FuncOutcomes : FuncEnds(o)
    \/ \E b \in BOOLEAN : SpanUpdate(b)
    \/ \E b \in BOOLEAN : ErrorTrace(b)
    \/ \E b \in BOOLEAN : ErrorTraceUpdate(b)
    \/ SafeTraceReturn
    \/ \E h \in Helpers, id \in HelperTraceIds, d \in BOOLEAN, b \in BOOLEAN :
           LogHelper(h, id, d, b)
    \/ HelperReturn
    \/ \E n \in TextCounts : EmbedCall(n)
    \/ \E ok \in BOOLEAN : EmbedResponse(ok)
    \/ EmbedReturn

SpecTrace == InitTrace /\ [][NextTrace]_vars

\* C13: with tracing not configured the wrapper makes no backend call,
\* hands the positional arguments and the trace_id keyword to the function
\* as it got them, calls the function once, and ends as the function ended.
C13_UnconfiguredPassThrough ==
    (~is_langfuse_configured /\ wrapper.pc \in {"func", "done"}) =>
        /\ wrapper.backend = <<>>
        /\ wrapper.calls = 1
        /\ wrapper.received = [args |-> wrapper.args, trace_id |-> wrapper.kw]
        /\ wrapper.pc = "done" =>
            /\ wrapper.func # NoOutcome
            /\ wrapper.out = wrapper.func

\* an unconfigured wrapper was called with a trace_id keyword and the
\* function raised
C13_Witness ==
    /\ ~is_langfuse_configured
    /\ wrapper.pc = "done"
    /\ wrapper.kw \in TraceIds
    /\ wrapper.received.trace_id = wrapper.kw
    /\ wrapper.out.kind = "raise"

\* C14: a helper of langfuse_utils never raises; it makes no backend call
\* when tracing is unconfigured or trace_id is absent, at most one
\* otherwise, and returns normally when that call fails.
C14_HelpersNeverCrash ==
    helper.pc = "done" =>
        /\ helper.raised = NoExc
        /\ helper.calls <= 1
        /\ (~is_langfuse_configured \/ Falsy(helper.trace_id)) => helper.calls = 0
        /\ helper.failed => helper.calls = 1

\* a helper made its backend call, the call failed, the helper returned
C14_Witness ==
    /\ helper.pc = "done"
    /\ is_langfuse_configured
    /\ helper.calls = 1
    /\ helper.failed
    /\ helper.raised = NoExc

\* the backend calls of kind c that succeeded during the wrapper call
Made(c) ==
    Cardinality({i \in DOMAIN wrapper.backend :
        wrapper.backend[i].call = c /\ wrapper.backend[i].ok})

\* C18: with tracing configured an error trace is created exactly when the
\* wrapped function raised: one error trace and the function's exception
\* for the caller when it raised, one success update and no error trace
\* when it returned.
C18_ErrorTraceIffFunctionRaised ==
    (is_langfuse_configured /\ wrapper.pc = "done") =>
        /\ Made("error_trace") >= 1 <=> wrapper.func.kind = "raise"
        /\ wrapper.func.kind = "raise" =>
            /\ Made("error_trace") = 1
            /\ wrapper.out = wrapper.func
        /\ wrapper.func.kind = "return" =>
            /\ Made("update") = 1
            /\ Made("error_trace") = 0

\* C19: with tracing configured the wrapper calls the function exactly once
\* and ends as the function ended, whatever the backend calls do.
C19_OutcomeIsTheFunctions ==
    (is_langfuse_configured /\ wrapper.pc = "done") =>
        /\ wrapper.calls = 1
        /\ wrapper.out = wrapper.func

\* position in embed.spans of the event e, 0 when it is not there
Position(e) ==
    IF \E i \in DOMAIN embed.spans : embed.spans[i] = e
    THEN CHOOSE i \in DOMAIN embed.spans : embed.spans[i] = e
    ELSE 0

\* C20: when embed_with_langfuse has finished, every span it started is
\* ended, each batch span before the next one starts, and the
\* embedding_operation span after the last batch span and before the trace
\* is updated.
C20_EverySpanEnded ==
    embed.pc = "done" =>
        /\ \A i \in DOMAIN embed.spans :
              (embed.spans[i].k = "start" /\ embed.spans[i].span # "trace") =>
                  \E j \in DOMAIN embed.spans :
                      /\ j > i
                      /\ embed.spans[j] =
                             SpanEvent("end", embed.spans[i].span, embed.spans[i].i)
        /\ \A b \in 2..MaxBatches :
              Position(SpanEvent("start", "embedding_batch", b)) > 0 =>
                  /\ Position(SpanEvent("end", "embedding_batch", b - 1)) > 0
                  /\ Position(SpanEvent("end", "embedding_batch", b - 1))
                        < Position(SpanEvent("start", "embedding_batch", b))
        /\ \A b \in 1..MaxBatches :
              Position(SpanEvent("start", "embedding_batch", b)) > 0 =>
                  Position(SpanEvent("end", "embedding_batch", b))
                      < Position(SpanEvent("end", "embedding_operation", 0))
        /\ Position(SpanEvent("end", "embedding_operation", 0))
              < Position(SpanEvent("update", "trace", 0))

\* without a failing request the spans are ended in the order C20 states
EmbedSuccessOrder == (embed.pc = "done" /\ embed.raised = NoExc) => C20_EverySpanEnded

\* with backend calls that all succeed the wrapper ends as the function
\* ended and records what C18 states
SafeTraceHealthyBackend ==
    (\A i \in DOMAIN wrapper.backend : wrapper.backend[i].ok) =>
        (C18_ErrorTraceIffFunctionRaised /\ C19_OutcomeIsTheFunctions)

====
